---------------------------- MODULE Spec2Model ----------------------------
(***************************************************************************)
(* A model of dagger (src/dagger.py, src/utils.py, src/options.py): the    *)
(* N-ary tree NTree/DAGtree, the snapshot DAGstructure with its traversal, *)
(* XML export/import, build and restore operations, and the host scene the *)
(* operations talk to.                                                     *)
(*                                                                         *)
(* Python strings are sequences of one-character strings, so that split,   *)
(* startswith and str()/eval() conversions are computed, not assumed.      *)
(* Python objects of class NTree/DAGtree live in an arena (a sequence);    *)
(* an object's identity is its index.                                      *)
(***************************************************************************)
EXTENDS Integers, Sequences, FiniteSets, TLC

VARIABLES
    nodes,   \* arena of the DAGtree objects reachable from self.root
    root,    \* DAGstructure.root: an index of nodes, 0 for None
    last,    \* the most recent call: operation, arguments, outcome
    log,     \* requests the most recent call sent to the host (cmds / utils.create_node)
    scene,   \* the host scene: DAG objects in listing order
    doc,     \* the XML file on disk: arena of elements, <<>> when no file
    inodes,  \* arena of the DAGstructure returned by import_xml
    iroot    \* its root, 0 when nothing was imported

vars == <<nodes, root, last, log, scene, doc, inodes, iroot>>

(***************************************************************************)
(* Bounds.                                                                 *)
(***************************************************************************)
MaxTreeNodes == 3

(***************************************************************************)
(* Python values.  Every value has the same four fields so that any two    *)
(* values can be compared.                                                 *)
(***************************************************************************)
PyStr(chars)  == [typ |-> "str", n |-> 0, s |-> chars, items |-> <<>>]
PyInt(i)      == [typ |-> "int", n |-> i, s |-> <<>>, items |-> <<>>]
PyBool(b)     == [typ |-> "bool", n |-> IF b THEN 1 ELSE 0, s |-> <<>>, items |-> <<>>]
PyNone        == [typ |-> "NoneType", n |-> 0, s |-> <<>>, items |-> <<>>]
PyList(xs)    == [typ |-> "list", n |-> 0, s |-> <<>>, items |-> xs]
PyTuple(xs)   == [typ |-> "tuple", n |-> 0, s |-> <<>>, items |-> xs]
PyObj(id)     == [typ |-> "DAGtree", n |-> id, s |-> <<>>, items |-> <<>>]

Last(seq) == seq[Len(seq)]

\* str.split('|')
RECURSIVE SplitBar(_)
SplitBar(chars) ==
    IF chars = <<>> THEN << <<>> >>
    ELSE LET r == SplitBar(Tail(chars)) IN
         IF Head(chars) = "|" THEN << <<>> >> \o r
         ELSE << <<Head(chars)>> \o Head(r) >> \o Tail(r)

\* str.startswith('|')
StartsWithBar(chars) == Len(chars) > 0 /\ chars[1] = "|"

(***************************************************************************)
(* NTree.  An attribute bag (opt) is a function from attribute names to    *)
(* Python values; opt=None and opt={} are both the empty function (both    *)
(* are falsy and both make opt[k] raise).                                  *)
(***************************************************************************)
NoOpt == <<>>

HasKey(opt, k) == k \in DOMAIN opt

\* NTree.__init__: the fields, then setattr(self, k, v) for every bag entry
\* (an entry named like a field replaces the field), then self.opt = opt.
NTreeInit(name, parent, opt) ==
    LET set(field, v) == IF HasKey(opt, field) THEN opt[field] ELSE v
    IN [name       |-> set("name", PyStr(name)),
        short_name |-> set("short_name",
                           IF StartsWithBar(name) THEN PyStr(Last(SplitBar(name)))
                           ELSE PyNone),
        childs     |-> set("childs", PyList(<<>>)),
        parent     |-> set("parent", parent),
        opt        |-> opt]

\* parent=None becomes list()
NoParent == PyList(<<>>)

\* NTree.add on the object self of arena ns; chs is the list of names (a
\* single name is wrapped in a list).  Each child is constructed, appended to
\* self.childs (AttributeError when childs is no list any more), and returned.
RECURSIVE NTreeAdd(_, _, _, _)
NTreeAdd(ns, self, chs, opt) ==
    IF chs = <<>> THEN [ns |-> ns, raised |-> FALSE, rets |-> <<>>]
    ELSE IF ns[self].childs.typ # "list"
         THEN [ns |-> ns, raised |-> TRUE, rets |-> <<>>]
    ELSE LET id   == Len(ns) + 1
             obj  == NTreeInit(Head(chs), PyObj(self), opt)
             ns1  == Append(ns, obj)
             ns2  == [ns1 EXCEPT ![self].childs.items = Append(@, PyObj(id))]
             rest == NTreeAdd(ns2, self, Tail(chs), opt)
         IN [ns |-> rest.ns, raised |-> rest.raised, rets |-> <<id>> \o rest.rets]

\* NTree.find_add: every node named par that is reached without passing
\* through another node named par gets the children; the walk does not stop
\* at the first match.  Iterating a childs attribute that is no list raises
\* (TypeError for None/bool/int, AttributeError on the first character of a
\* string).
RECURSIVE NTreeFindAdd(_, _, _, _, _)
RECURSIVE FindAddChilds(_, _, _, _, _)
NTreeFindAdd(ns, self, par, chs, opt) ==
    IF ns[self].name # PyStr(par)
    THEN LET c == ns[self].childs IN
         IF c.typ = "list" THEN FindAddChilds(ns, c.items, par, chs, opt)
         ELSE IF c.typ \in {"str", "tuple"} /\ c.s = <<>> /\ c.items = <<>>
              THEN [ns |-> ns, raised |-> FALSE]
         ELSE [ns |-> ns, raised |-> TRUE]
    ELSE LET r == NTreeAdd(ns, self, chs, opt) IN [ns |-> r.ns, raised |-> r.raised]

FindAddChilds(ns, items, par, chs, opt) ==
    IF items = <<>> THEN [ns |-> ns, raised |-> FALSE]
    ELSE LET r == NTreeFindAdd(ns, Head(items).n, par, chs, opt) IN
         IF r.raised THEN r
         ELSE FindAddChilds(r.ns, Tail(items), par, chs, opt)

(***************************************************************************)
(* The most recent call.                                                   *)
(***************************************************************************)
Call(op, raised, args, out) == [op |-> op, raised |-> raised, args |-> args, out |-> out]

NoCall == Call("init", FALSE, <<>>, <<>>)

(***************************************************************************)
(* Actions on the tree.                                                    *)
(***************************************************************************)
\* self.root = DAGtree(name, opt=opt)   (construct, import_xml)
NewRoot(name, opt) ==
    /\ nodes' = << NTreeInit(name, NoParent, opt) >>
    /\ root' = 1
    /\ last' = Call("DAGtree", FALSE, [names |-> <<name>>, opt |-> opt], <<1>>)
    /\ log' = <<>>
    /\ UNCHANGED <<scene, doc, inodes, iroot>>

\* node.add(chs, opt) on an object of the tree
Add(self, chs, opt, bound) ==
    /\ self \in 1..Len(nodes)
    /\ Len(nodes) + Len(chs) <= bound
    /\ LET r == NTreeAdd(nodes, self, chs, opt) IN
       /\ nodes' = r.ns
       /\ last' = Call("add", r.raised, [self |-> self, names |-> chs, opt |-> opt], r.rets)
    /\ log' = <<>>
    /\ UNCHANGED <<root, scene, doc, inodes, iroot>>

\* self.root.find_add(par, name, opt)
FindAdd(par, name, opt, bound) ==
    /\ root # 0
    /\ LET r == NTreeFindAdd(nodes, root, par, <<name>>, opt) IN
       /\ Len(r.ns) <= bound
       /\ nodes' = r.ns
       /\ last' = Call("find_add", r.raised, [par |-> par, names |-> <<name>>, opt |-> opt], <<>>)
    /\ log' = <<>>
    /\ UNCHANGED <<root, scene, doc, inodes, iroot>>

(***************************************************************************)
(* Specification SpecTree: trees grown by hand with arbitrary bags.        *)
(***************************************************************************)
TreeNames == { <<"a">>, <<"|", "a", "|", "b">> }

TreeOpts ==
    { NoOpt,
      "visibility" :> PyBool(TRUE),
      "name" :> PyStr(<<"z">>),
      "parent" :> PyNone,
      "childs" :> PyNone }

InitEmpty ==
    /\ nodes = <<>>
    /\ root = 0
    /\ last = NoCall
    /\ log = <<>>
    /\ scene = <<>>
    /\ doc = <<>>
    /\ inodes = <<>>
    /\ iroot = 0

TreeNewRoot == \E name \in TreeNames, opt \in TreeOpts : NewRoot(name, opt)

TreeAdd ==
    \E self \in 1..Len(nodes), opt \in TreeOpts,
       chs \in {<<a>> : a \in TreeNames} \cup {<<a, b>> : a \in TreeNames, b \in TreeNames} :
        Add(self, chs, opt, MaxTreeNodes)

TreeFindAdd ==
    \E par \in TreeNames, name \in TreeNames, opt \in TreeOpts :
        FindAdd(par, name, opt, MaxTreeNodes)

NextTree == TreeNewRoot \/ TreeAdd \/ TreeFindAdd

SpecTree == InitEmpty /\ [][NextTree]_vars


(***************************************************************************)
(* Structure of the arena as a tree.                                       *)
(***************************************************************************)
\* the objects a childs value refers to, in order (nothing for a non-list)
ChildIds(ns, i) ==
    IF ns[i].childs.typ = "list"
    THEN [k \in 1..Len(ns[i].childs.items) |-> ns[i].childs.items[k].n]
    ELSE <<>>

Occurrences(seq, x) == Cardinality({k \in 1..Len(seq) : seq[k] = x})

\* the object reached from i by following parent references `steps` times, 0
\* when the chain leaves the objects
RECURSIVE Ancestor(_, _, _)
Ancestor(ns, i, steps) ==
    IF steps = 0 THEN i
    ELSE IF i \in 1..Len(ns) /\ ns[i].parent.typ = "DAGtree"
         THEN Ancestor(ns, ns[i].parent.n, steps - 1)
    ELSE 0

\* acyclic, single-rooted, one parent each, listed exactly once by that parent
WellFormedTree(ns, r) ==
    /\ r \in 1..Len(ns)
    /\ ns[r].parent = NoParent
    /\ \A i \in 1..Len(ns) :
        /\ ns[i].childs.typ = "list"
        /\ \A k \in 1..Len(ns[i].childs.items) :
            /\ ns[i].childs.items[k].typ = "DAGtree"
            /\ ns[i].childs.items[k].n \in 1..Len(ns)
        /\ Occurrences(ChildIds(ns, i), r) = 0
        /\ i # r =>
            /\ ns[i].parent.typ = "DAGtree"
            /\ ns[i].parent.n \in 1..Len(ns)
            /\ \A p \in 1..Len(ns) :
                Occurrences(ChildIds(ns, p), i) = IF p = ns[i].parent.n THEN 1 ELSE 0
            /\ \E d \in 1..Len(ns) : Ancestor(ns, i, d) = r

(***************************************************************************)
(* C6.  Tree structural invariant: after any sequence of node              *)
(* constructions, add and find_add calls with arbitrary names and          *)
(* arbitrary attribute bags, the tree is acyclic and single-rooted, every  *)
(* non-root node has exactly one parent whose child list contains it       *)
(* exactly once, and the nodes an insertion created carry the name and the *)
(* parent reference the insertion gave them and an own child list.         *)
(***************************************************************************)
C6_TreeStructuralInvariant ==
    root # 0 =>
        /\ WellFormedTree(nodes, root)
        /\ (last.op \in {"DAGtree", "add"} /\ ~last.raised) =>
            \A k \in 1..Len(last.out) :
                /\ nodes[last.out[k]].name = PyStr(last.args.names[k])
                /\ nodes[last.out[k]].parent =
                       (IF last.op = "add" THEN PyObj(last.args.self) ELSE NoParent)


(***************************************************************************)
(* DAGstructure.traverse: the pairs (node, list of its children) the       *)
(* generator yields, in order.  root='' (0 here) stands for self.root.     *)
(***************************************************************************)
\* a traversal that ignores the topdown flag
RECURSIVE TraversePreOnly(_, _, _)
TraversePreOnly(ns, r, topdown) ==
    LET cl == ChildIds(ns, r)
        sub[k \in 0..Len(cl)] ==
            IF k = 0 THEN <<>> ELSE sub[k - 1] \o TraversePreOnly(ns, cl[k], topdown)
    IN << <<r, cl>> >> \o sub[Len(cl)]

RECURSIVE Traverse(_, _, _)
RECURSIVE TraverseEach(_, _, _)
Traverse(ns, r, topdown) ==
    LET childs_list == ChildIds(ns, r) IN
    (IF topdown THEN << <<r, childs_list>> >> ELSE <<>>)
    \o TraverseEach(ns, childs_list, topdown)
    \o (IF ~topdown THEN << <<r, childs_list>> >> ELSE <<>>)

TraverseEach(ns, childs_list, topdown) ==
    IF childs_list = <<>> THEN <<>>
    ELSE Traverse(ns, Head(childs_list), topdown)
         \o TraverseEach(ns, Tail(childs_list), topdown)

\* root == '' or root is None: root = self.root
RootArg(arg) == IF arg = 0 THEN root ELSE arg

\* list(self.traverse(root, topdown))
DoTraverse(arg, topdown) ==
    /\ root # 0
    /\ arg \in 0..Len(nodes)
    /\ last' = Call("traverse", FALSE, [root |-> arg, topdown |-> topdown],
                    Traverse(nodes, RootArg(arg), topdown))
    /\ log' = <<>>
    /\ UNCHANGED <<nodes, root, scene, doc, inodes, iroot>>

(***************************************************************************)
(* Requests to the host.                                                   *)
(***************************************************************************)
\* cmds.parent(child, parent); failed: the host raised
ParentRequest(id, child, parent, failed) ==
    [req |-> "parent", node |-> id, name |-> child, parent |-> parent, failed |-> failed]

\* the (parent, child) pairs a top-down traversal hands to the inner loops of
\* restore_parent, restore_attributes and build: for every yielded pair, each
\* child of its list
RECURSIVE ChildVisits(_)
ChildVisits(pairs) ==
    IF pairs = <<>> THEN <<>>
    ELSE LET par == Head(pairs)[1]
             cl  == Head(pairs)[2]
         IN [k \in 1..Len(cl) |-> [parent |-> par, child |-> cl[k]]]
            \o ChildVisits(Tail(pairs))

\* restore_parent without its try/except: the first failure ends the walk
RECURSIVE RestoreParentNoTry(_, _, _)
RestoreParentNoTry(ns, visits, missing) ==
    IF visits = <<>> THEN [log |-> <<>>, raised |-> FALSE]
    ELSE LET c == ns[Head(visits).child] IN
         IF c.parent.typ # "DAGtree" THEN [log |-> <<>>, raised |-> TRUE]
         ELSE LET pname == ns[c.parent.n].name.s
                  bad   == c.name.s \in missing \/ pname \in missing
                  req   == ParentRequest(Head(visits).child, c.name.s, pname, bad)
                  rest  == RestoreParentNoTry(ns, Tail(visits), missing)
              IN IF bad THEN [log |-> <<req>>, raised |-> TRUE]
                 ELSE [log |-> <<req>> \o rest.log, raised |-> rest.raised]

\* the loop of restore_parent over the visits: cmds.parent(c.name,
\* c.parent.name) inside try/except-pass.  missing: the names without a live
\* host object, for which cmds.parent raises.  A c.parent that is no object
\* raises inside the try before any request is made.
RECURSIVE RestoreParentLoop(_, _, _)
RestoreParentLoop(ns, visits, missing) ==
    IF visits = <<>> THEN [log |-> <<>>, raised |-> FALSE]
    ELSE LET c    == ns[Head(visits).child]
             rest == RestoreParentLoop(ns, Tail(visits), missing)
         IN IF c.parent.typ # "DAGtree" THEN rest
            ELSE LET pname == ns[c.parent.n].name.s
                     bad   == c.name.s \in missing \/ pname \in missing
                 IN [log |-> <<ParentRequest(Head(visits).child, c.name.s, pname, bad)>>
                             \o rest.log,
                     raised |-> rest.raised]

\* DAGstructure.restore_parent
RestoreParent(missing) ==
    /\ root # 0
    /\ LET r == RestoreParentLoop(nodes, ChildVisits(Traverse(nodes, root, TRUE)), missing) IN
       /\ log' = r.log
       /\ last' = Call("restore_parent", r.raised, [missing |-> missing], <<>>)
    /\ UNCHANGED <<nodes, root, scene, doc, inodes, iroot>>

(***************************************************************************)
(* Specification SpecWalk: trees grown with find_add, walked by traverse   *)
(* and restore_parent.                                                     *)
(***************************************************************************)
MaxWalkNodes == 4

WalkNames == { <<"a">>, <<"|", "a", "|", "b">>, <<"c">> }

WalkNewRoot == \E name \in WalkNames : NewRoot(name, NoOpt)

WalkFindAdd == \E par \in WalkNames, name \in WalkNames : FindAdd(par, name, NoOpt, MaxWalkNodes)

WalkTraverse == \E arg \in 0..Len(nodes), topdown \in BOOLEAN : DoTraverse(arg, topdown)

WalkRestoreParent == \E missing \in SUBSET WalkNames : RestoreParent(missing)

NextWalk == WalkNewRoot \/ WalkFindAdd \/ WalkTraverse \/ WalkRestoreParent

SpecWalk == InitEmpty /\ [][NextWalk]_vars

(***************************************************************************)
(* Tree relations used to state the claims.                                *)
(***************************************************************************)
\* j lies in the subtree rooted at i (i itself included)
InSubtree(ns, i, j) == \E d \in 0..Len(ns) : Ancestor(ns, j, d) = i

ProperDescendant(ns, i, j) == i # j /\ InSubtree(ns, i, j)

\* positions of node i among the first components of the yielded pairs
Positions(pairs, i) == {k \in 1..Len(pairs) : pairs[k][1] = i}

PosOf(pairs, i) == CHOOSE k \in Positions(pairs, i) : TRUE

(***************************************************************************)
(* C3.  Traversal order: traverse(topdown=True) yields each node of the    *)
(* subtree exactly once, a node before all nodes of its subtree and the    *)
(* subtrees of its children in child-list order (depth-first pre-order);   *)
(* traverse(topdown=False) yields each node exactly once after all nodes   *)
(* of its subtree (post-order); every yielded pair is (node, that node's   *)
(* child list) and the sequence is finite.                                 *)
(***************************************************************************)
C3_TraversalOrder ==
    last.op = "traverse" =>
        LET out == last.out
            r   == RootArg(last.args.root)
            sub == {i \in 1..Len(nodes) : InSubtree(nodes, r, i)}
        IN /\ Len(out) = Cardinality(sub)
           /\ \A i \in 1..Len(nodes) :
                Cardinality(Positions(out, i)) = IF i \in sub THEN 1 ELSE 0
           /\ \A k \in 1..Len(out) : out[k][2] = ChildIds(nodes, out[k][1])
           /\ \A i \in sub, j \in sub :
                ProperDescendant(nodes, i, j) =>
                    IF last.args.topdown THEN PosOf(out, i) < PosOf(out, j)
                    ELSE PosOf(out, j) < PosOf(out, i)
           /\ \A p \in sub :
                LET cl == ChildIds(nodes, p) IN
                \A a \in 1..Len(cl), b \in 1..Len(cl) :
                    a < b =>
                        \A i \in sub, j \in sub :
                            (InSubtree(nodes, cl[a], i) /\ InSubtree(nodes, cl[b], j))
                                => PosOf(out, i) < PosOf(out, j)

\* a top-down and a bottom-up walk have been made over a tree whose root has
\* two children, the first with a child of its own
ThreeLevelTree ==
    /\ Len(nodes) = 4
    /\ ChildIds(nodes, root) = <<2, 4>>
    /\ ChildIds(nodes, 2) = <<3>>

C3_Witness ==
    /\ last.op = "traverse"
    /\ ThreeLevelTree
    /\ last.args.root = 0
    /\ ~last.args.topdown
    /\ [k \in 1..Len(last.out) |-> last.out[k][1]] = <<3, 2, 4, 1>>

(***************************************************************************)
(* C8.  Best-effort restore_parent: whatever set of nodes fails in the     *)
(* host, restore_parent issues exactly one re-parent request (node name,   *)
(* Tree-parent name) for every non-root node, none for the root, in        *)
(* top-down order (by the pre-order position of the parent, then by the    *)
(* position in the parent's child list), continues past every failing      *)
(* request and returns without raising.                                    *)
(***************************************************************************)
C8_BestEffortRestoreParent ==
    last.op = "restore_parent" =>
        LET pre == Traverse(nodes, root, TRUE)
            idx(i) == CHOOSE k \in 1..Len(ChildIds(nodes, nodes[i].parent.n)) :
                          ChildIds(nodes, nodes[i].parent.n)[k] = i
        IN /\ ~last.raised
           /\ Len(log) = Len(nodes) - 1
           /\ \A i \in 1..Len(nodes) :
                Cardinality({k \in 1..Len(log) : log[k].node = i}) = IF i = root THEN 0 ELSE 1
           /\ \A k \in 1..Len(log) :
                LET i == log[k].node IN
                /\ log[k].req = "parent"
                /\ log[k].name = nodes[i].name.s
                /\ log[k].parent = nodes[nodes[i].parent.n].name.s
                /\ log[k].failed =
                       (log[k].name \in last.args.missing \/ log[k].parent \in last.args.missing)
           /\ \A k \in 1..Len(log), l \in 1..Len(log) :
                k < l =>
                    LET i == log[k].node
                        j == log[l].node
                        pi == PosOf(pre, nodes[i].parent.n)
                        pj == PosOf(pre, nodes[j].parent.n)
                    IN pi < pj \/ (pi = pj /\ idx(i) < idx(j))

\* a request failed in the host and the walk went on to later nodes
C8_Witness ==
    /\ last.op = "restore_parent"
    /\ ~last.raised
    /\ Len(nodes) = 4
    /\ Len(log) = 3
    /\ log[1].failed
    /\ ~log[3].failed


(***************************************************************************)
(* DAGstructure.build and DAGstructure.restore_attributes.                 *)
(***************************************************************************)
\* utils.create_node(node_name, node_type, uuid, parent=parent_node);
\* parent <<>> is the empty string: no parent
CreateRequest(id, name, nodeType, uuid, parent) ==
    [req |-> "create", node |-> id, name |-> name, nodeType |-> nodeType,
     uuid |-> uuid, parent |-> parent]

\* cmds.setAttr(name + '.' + attr, val)
SetAttrRequest(id, name, attr, val) ==
    [req |-> "setAttr", node |-> id, name |-> name, attr |-> attr, value |-> val]

\* build._create_node: the creation name, the required nodeType, the uuid
\* (read whenever maintainUUID is set); a missing key raises KeyError
CreateNode(ns, id, parent_node, maintainUUID) ==
    LET elem == ns[id]
        node_name == IF StartsWithBar(elem.name.s) THEN Last(SplitBar(elem.name.s))
                     ELSE elem.name.s
    IN IF elem.name.typ # "str" \/ ~HasKey(elem.opt, "nodeType")
       THEN [raised |-> TRUE, log |-> <<>>]
       ELSE IF maintainUUID /\ ~HasKey(elem.opt, "uuid")
       THEN [raised |-> TRUE, log |-> <<>>]
       ELSE [raised |-> FALSE,
             log |-> << CreateRequest(id, node_name, elem.opt["nodeType"],
                                      IF maintainUUID THEN elem.opt["uuid"] ELSE PyStr(<<>>),
                                      parent_node) >>]

\* the calls of _create_node in build, in order: the root argument with
\* parent_node='', then every child of every pair of self.traverse() (which
\* always starts at self.root) with parent_node=root.name.  visit.parent = 0
\* marks the first call.
BuildCalls(ns, r, arg) ==
    << [parent |-> 0, child |-> arg] >> \o ChildVisits(Traverse(ns, r, TRUE))

RECURSIVE BuildLoop(_, _, _)
BuildLoop(ns, calls, maintainUUID) ==
    IF calls = <<>> THEN [raised |-> FALSE, log |-> <<>>]
    ELSE LET v == Head(calls)
             c == CreateNode(ns, v.child,
                             IF v.parent = 0 THEN <<>> ELSE ns[v.parent].name.s,
                             maintainUUID)
         IN IF c.raised THEN c
            ELSE LET rest == BuildLoop(ns, Tail(calls), maintainUUID)
                 IN [raised |-> rest.raised, log |-> c.log \o rest.log]

\* DAGstructure.build(root=arg, maintainUUID); the host's create calls succeed
Build(arg, maintainUUID) ==
    /\ root # 0
    /\ arg \in 0..Len(nodes)
    /\ LET r == BuildLoop(nodes, BuildCalls(nodes, root, RootArg(arg)), maintainUUID) IN
       /\ log' = r.log
       /\ last' = Call("build", r.raised, [root |-> arg, maintainUUID |-> maintainUUID], <<>>)
    /\ UNCHANGED <<nodes, root, scene, doc, inodes, iroot>>

\* the instance attributes NTree.__init__ always sets
NodeFields == {"name", "short_name", "childs", "parent", "opt"}

\* DAGtree.restoreAttrs: hasattr(self, attr), then self.opt[attr] (KeyError
\* when the attribute is no bag entry), then setAttr unless the value is None
RECURSIVE RestoreAttrs(_, _, _)
RestoreAttrs(ns, id, attrs) ==
    IF attrs = <<>> THEN [raised |-> FALSE, log |-> <<>>]
    ELSE LET attr == Head(attrs)
             self == ns[id]
             rest == RestoreAttrs(ns, id, Tail(attrs))
         IN IF ~(HasKey(self.opt, attr) \/ attr \in NodeFields) THEN rest
            ELSE IF ~HasKey(self.opt, attr) THEN [raised |-> TRUE, log |-> <<>>]
            ELSE IF self.opt[attr] = PyNone THEN rest
            ELSE [raised |-> rest.raised,
                  log |-> << SetAttrRequest(id, self.name.s, attr, self.opt[attr]) >>
                          \o rest.log]

\* the calls of restoreAttrs in restore_attributes, in order: the root
\* argument, then every child of every pair of self.traverse() (which always
\* starts at self.root)
RestoreAttrsCalls(ns, r, arg) ==
    LET visits == ChildVisits(Traverse(ns, r, TRUE))
    IN <<arg>> \o [k \in 1..Len(visits) |-> visits[k].child]

RECURSIVE RestoreAttrsLoop(_, _, _)
RestoreAttrsLoop(ns, calls, attrs) ==
    IF calls = <<>> THEN [raised |-> FALSE, log |-> <<>>]
    ELSE LET c == RestoreAttrs(ns, Head(calls), attrs) IN
         IF c.raised THEN c
         ELSE LET rest == RestoreAttrsLoop(ns, Tail(calls), attrs)
              IN [raised |-> rest.raised, log |-> c.log \o rest.log]

\* DAGstructure.restore_attributes(root=arg, attrs)
RestoreAttributes(arg, attrs) ==
    /\ root # 0
    /\ arg \in 0..Len(nodes)
    /\ LET r == RestoreAttrsLoop(nodes, RestoreAttrsCalls(nodes, root, RootArg(arg)), attrs) IN
       /\ log' = r.log
       /\ last' = Call("restore_attributes", r.raised, [root |-> arg, attrs |-> attrs], <<>>)
    /\ UNCHANGED <<nodes, root, scene, doc, inodes, iroot>>

(***************************************************************************)
(* Specification SpecBuild: trees grown with find_add from the bags below, *)
(* replayed onto the host by build and restore_attributes.                 *)
(***************************************************************************)
MaxBuildNodes == 3

BuildNames == { <<"a">>, <<"|", "a", "|", "b">> }

BuildOpts ==
    { ("nodeType" :> PyStr(<<"t">>)) @@ ("uuid" :> PyStr(<<"u">>)) @@ ("visibility" :> PyBool(TRUE)),
      ("nodeType" :> PyStr(<<"t">>)) @@ ("visibility" :> PyNone),
      ("uuid" :> PyStr(<<"u">>)) @@ ("visibility" :> PyBool(FALSE)) }

BuildAttrs == { <<"visibility">>, <<"uuid">>, <<"visibility", "uuid">> }

BuildNewRoot == \E name \in BuildNames, opt \in BuildOpts : NewRoot(name, opt)

BuildFindAdd ==
    \E par \in BuildNames, name \in BuildNames, opt \in BuildOpts :
        FindAdd(par, name, opt, MaxBuildNodes)

DoBuild == \E arg \in 0..Len(nodes), maintainUUID \in BOOLEAN : Build(arg, maintainUUID)

DoRestoreAttributes ==
    \E arg \in 0..Len(nodes), attrs \in BuildAttrs : RestoreAttributes(arg, attrs)

NextBuild == BuildNewRoot \/ BuildFindAdd \/ DoBuild \/ DoRestoreAttributes

SpecBuild == InitEmpty /\ [][NextBuild]_vars

(***************************************************************************)
(* C2.  Build ordering: in every call of build that completes, with the    *)
(* default root or with an explicit root argument, each Tree node receives *)
(* exactly one create request; a create request that names a parent comes  *)
(* strictly after the create request for that parent Tree node; the first  *)
(* create request is for the root and carries no parent.                   *)
(***************************************************************************)
C2_BuildOrdering ==
    (last.op = "build" /\ ~last.raised) =>
        /\ \A i \in 1..Len(nodes) :
            Cardinality({k \in 1..Len(log) : log[k].node = i}) = 1
        /\ log[1].node = root
        /\ log[1].parent = <<>>
        /\ \A k \in 1..Len(log) :
            log[k].parent # <<>> =>
                \E l \in 1..(k - 1) : log[l].node = nodes[log[k].node].parent.n

(***************************************************************************)
(* C7.  restore_attributes(root=N, attrs=A) issues a set-attribute request *)
(* for (node n, attribute a) exactly when n lies in the subtree rooted at  *)
(* N (the whole tree when N is omitted), a is in A, a is in n's attribute  *)
(* bag and its value is not None; never for a node outside N's subtree,    *)
(* and never twice for the same (n, a).                                    *)
(***************************************************************************)
C7_RestoreAttributesScope ==
    (last.op = "restore_attributes" /\ ~last.raised) =>
        LET N == RootArg(last.args.root)
            A == {last.args.attrs[k] : k \in 1..Len(last.args.attrs)}
        IN \A n \in 1..Len(nodes), a \in {"visibility", "uuid", "nodeType"} :
            Cardinality({k \in 1..Len(log) :
                            /\ log[k].node = n
                            /\ log[k].attr = a
                            /\ log[k].name = nodes[n].name.s
                            /\ log[k].value = nodes[n].opt[a]})
            = IF /\ InSubtree(nodes, N, n)
                 /\ a \in A
                 /\ HasKey(nodes[n].opt, a)
                 /\ nodes[n].opt[a] # PyNone
              THEN 1 ELSE 0

(***************************************************************************)
(* C9.  build fails if and only if some Tree node lacks the nodeType       *)
(* attribute: it halts at the first such node in creation order, with no   *)
(* create request for that node or any later one; a missing uuid never     *)
(* makes build fail under either setting of maintainUUID (the node is then *)
(* created without a preserved identity).  Stated for the default root.    *)
(***************************************************************************)
C9_BuildFailsOnlyWithoutNodeType ==
    (last.op = "build" /\ last.args.root = 0) =>
        LET visits == ChildVisits(Traverse(nodes, root, TRUE))
            order  == <<root>> \o [k \in 1..Len(visits) |-> visits[k].child]
            lacking == {k \in 1..Len(order) : ~HasKey(nodes[order[k]].opt, "nodeType")}
            first  == CHOOSE k \in lacking : \A l \in lacking : k <= l
        IN /\ last.raised <=> lacking # {}
           /\ Len(log) = IF lacking # {} THEN first - 1 ELSE Len(order)
           /\ \A k \in 1..Len(log) :
                /\ log[k].node = order[k]
                /\ log[k].nodeType = nodes[order[k]].opt["nodeType"]
                /\ log[k].uuid =
                       IF last.args.maintainUUID /\ HasKey(nodes[order[k]].opt, "uuid")
                       THEN nodes[order[k]].opt["uuid"] ELSE PyStr(<<>>)


(***************************************************************************)
(* Attribute values as text: str(v) and the type name written by           *)
(* __create_new_element, eval(typ)(text) read back by restore_option.      *)
(***************************************************************************)
Digits == <<"0", "1", "2", "3", "4", "5", "6", "7", "8", "9">>

\* str(i) for an integer
RECURSIVE NatStr(_)
NatStr(i) == IF i < 10 THEN <<Digits[i + 1]>> ELSE NatStr(i \div 10) \o <<Digits[(i % 10) + 1]>>

IntStr(i) == IF i < 0 THEN <<"-">> \o NatStr(-i) ELSE NatStr(i)

\* ', '.join(parts)
RECURSIVE JoinComma(_)
JoinComma(parts) ==
    IF parts = <<>> THEN <<>>
    ELSE IF Len(parts) = 1 THEN parts[1]
    ELSE parts[1] \o <<",", " ">> \o JoinComma(Tail(parts))

\* str(v); inside a list or tuple a string is written with quotes (repr)
RECURSIVE StrOf(_, _)
StrOf(v, quoted) ==
    CASE v.typ = "str"      -> IF quoted THEN <<"'">> \o v.s \o <<"'">> ELSE v.s
      [] v.typ = "bool"     -> IF v.n = 1 THEN <<"T", "r", "u", "e">>
                               ELSE <<"F", "a", "l", "s", "e">>
      [] v.typ = "int"      -> IntStr(v.n)
      [] v.typ = "NoneType" -> <<"N", "o", "n", "e">>
      [] v.typ = "list"     ->
            <<"[">> \o JoinComma([k \in 1..Len(v.items) |-> StrOf(v.items[k], TRUE)]) \o <<"]">>
      [] v.typ = "tuple"    ->
            <<"(">> \o JoinComma([k \in 1..Len(v.items) |-> StrOf(v.items[k], TRUE)])
            \o (IF Len(v.items) = 1 THEN <<",">> ELSE <<>>) \o <<")">>

\* the attribute names in the order the bags list them (dict order)
KeyOrder == <<"nodeType", "uuid", "visibility", "count", "pivot", "translate">>

\* the option children __create_new_element gives an element: name, value =
\* str(v), type = the name in str(type(v)); none when options is falsy
OptionElements(options) ==
    LET keys == SelectSeq(KeyOrder, LAMBDA k : HasKey(options, k))
    IN [i \in 1..Len(keys) |->
            [name |-> keys[i], value |-> StrOf(options[keys[i]], FALSE),
             type |-> options[keys[i]].typ]]

\* str.lower() on the letters that occur
Lower(chars) ==
    [i \in 1..Len(chars) |->
        CASE chars[i] = "T" -> "t" [] chars[i] = "F" -> "f" [] chars[i] = "N" -> "n"
          [] OTHER -> chars[i]]

StrTrue == { <<"y">>, <<"y", "e", "s">>, <<"t">>, <<"t", "r", "u", "e">>, <<"o", "n">>, <<"1">> }

StrFalse == { <<"n">>, <<"n", "o">>, <<"f">>, <<"f", "a", "l", "s", "e">>, <<"o", "f", "f">>, <<"0">> }

DigitVal(c) == CHOOSE d \in 0..9 : Digits[d + 1] = c

IsDigits(chars) ==
    /\ chars # <<>>
    /\ \A i \in 1..Len(chars) : \E d \in 1..10 : Digits[d] = chars[i]

RECURSIVE ParseNat(_)
ParseNat(chars) ==
    IF chars = <<>> THEN 0
    ELSE 10 * ParseNat(SubSeq(chars, 1, Len(chars) - 1)) + DigitVal(Last(chars))

\* the characters of a text as a sequence of one-character strings
Chars(text) == [i \in 1..Len(text) |-> PyStr(<<text[i]>>)]

\* one option read back: bool through strtobool, NoneType as None, every
\* other type through eval(typ)(value).  ok is FALSE when the conversion
\* raises (ValueError, NameError).
Decode(typ, text) ==
    CASE typ = "bool" ->
            IF Lower(text) \in StrTrue THEN [ok |-> TRUE, v |-> PyBool(TRUE)]
            ELSE IF Lower(text) \in StrFalse THEN [ok |-> TRUE, v |-> PyBool(FALSE)]
            ELSE [ok |-> FALSE, v |-> PyNone]
      [] typ = "NoneType" -> [ok |-> TRUE, v |-> PyNone]
      [] typ = "int" ->
            IF IsDigits(text) THEN [ok |-> TRUE, v |-> PyInt(ParseNat(text))]
            ELSE IF text # <<>> /\ Head(text) = "-" /\ IsDigits(Tail(text))
                 THEN [ok |-> TRUE, v |-> PyInt(-ParseNat(Tail(text)))]
            ELSE [ok |-> FALSE, v |-> PyNone]
      [] typ = "str" -> [ok |-> TRUE, v |-> PyStr(text)]
      [] typ = "list" -> [ok |-> TRUE, v |-> PyList(Chars(text))]
      [] typ = "tuple" -> [ok |-> TRUE, v |-> PyTuple(Chars(text))]
      [] OTHER -> [ok |-> FALSE, v |-> PyNone]

\* XMLmixin.restore_option: the bag of a list of option elements; a later
\* option of the same name replaces an earlier one
RECURSIVE RestoreOption(_)
RestoreOption(options) ==
    IF options = <<>> THEN [ok |-> TRUE, opt |-> NoOpt]
    ELSE LET i_opt == Last(options)
             d     == Decode(i_opt.type, i_opt.value)
             rest  == RestoreOption(SubSeq(options, 1, Len(options) - 1))
         IN IF ~rest.ok \/ ~d.ok THEN [ok |-> FALSE, opt |-> NoOpt]
            ELSE [ok |-> TRUE, opt |-> (i_opt.name :> d.v) @@ rest.opt]


(***************************************************************************)
(* The host scene: DAG objects by full path, in listing order.             *)
(***************************************************************************)
SceneObject(path, isShape) == [path |-> path, shape |-> isShape]

\* a name denotes an object when it is its full path, or (a short name or a
\* partial path) when the full path ends with '|' + name
Denotes(name, path) ==
    IF StartsWithBar(name) THEN path = name
    ELSE /\ Len(path) > Len(name)
         /\ SubSeq(path, Len(path) - Len(name) + 1, Len(path)) = name
         /\ path[Len(path) - Len(name)] = "|"

\* cmds.ls(name, long=True)
Ls(sc, name) ==
    LET hits == SelectSeq(sc, LAMBDA o : Denotes(name, o.path))
    IN [i \in 1..Len(hits) |-> hits[i].path]

\* utils.getNode(name, long=True): the first full path, None when
\* cmds.objExists(name) is false
GetNode(sc, name) == IF Ls(sc, name) = <<>> THEN PyNone ELSE PyStr(Ls(sc, name)[1])

\* DAGtree.fullpath
FullPath(sc, ns, id) == GetNode(sc, ns[id].name.s)

(***************************************************************************)
(* The XML document: an arena of elements, element 1 the dagStructure root.*)
(***************************************************************************)
\* XMLmixin.__create_new_element
NewElement(name, tag, options) ==
    [tag |-> tag, name |-> Last(SplitBar(name)), fullpath |-> name,
     node |-> <<>>, option |-> OptionElements(options)]

\* XMLmixin.create_new_nodeTag
NewNodeTag(name, options) == NewElement(name, "node", options)

\* ET.Element(self.TAG_ROOT)
RootElement == [tag |-> "dagStructure", name |-> <<>>, fullpath |-> <<>>,
                node |-> <<>>, option |-> <<>>]

\* ele.append(new): the new element gets the next index
AppendElement(d, ele, new) ==
    [Append(d, new) EXCEPT ![ele].node = Append(@, Len(d) + 1)]

FirstMatchByName(d, ele, target_fp) ==
    LET hits == SelectSeq(d[ele].node, LAMBDA g : d[g].name = target_fp)
    IN IF hits = <<>> THEN 0 ELSE hits[1]

\* the first child element of ele whose fullpath is target_fp, 0 when none
FirstMatch(d, ele, target_fp) ==
    LET hits == SelectSeq(d[ele].node, LAMBDA g : d[g].fullpath = target_fp)
    IN IF hits = <<>> THEN 0 ELSE hits[1]

\* XMLmixin.find_named_element, from the segment list on: target_fp grows by
\* '|' + segment; the matching child is entered, a missing one is created
\* with the options given and entered
RECURSIVE FindNamedLoop(_, _, _, _, _)
FindNamedLoop(d, ele_curr, target_fp, segs, options) ==
    IF segs = <<>> THEN [doc |-> d, ele |-> ele_curr]
    ELSE LET fp  == target_fp \o <<"|">> \o Head(segs)
             grp == FirstMatch(d, ele_curr, fp)
         IN IF grp # 0 THEN FindNamedLoop(d, grp, fp, Tail(segs), options)
            ELSE FindNamedLoop(AppendElement(d, ele_curr, NewNodeTag(fp, options)),
                               Len(d) + 1, fp, Tail(segs), options)

\* XMLmixin.find_named_element
FindNamedElement(d, ele, fullpathName, options) ==
    FindNamedLoop(d, ele, <<>>, Tail(SplitBar(fullpathName)), options)

(***************************************************************************)
(* DAGstructure.export_xml.  A node the host does not know has fullpath    *)
(* None, and splitting it raises before any file is written.               *)
(***************************************************************************)
RECURSIVE ExportChilds(_, _, _, _, _)
ExportChilds(sc, ns, d, ele_curr, i_child) ==
    IF i_child = <<>> THEN [raised |-> FALSE, doc |-> d]
    ELSE LET fp == FullPath(sc, ns, Head(i_child)) IN
         IF fp = PyNone THEN [raised |-> TRUE, doc |-> d]
         ELSE ExportChilds(sc, ns,
                           AppendElement(d, ele_curr, NewNodeTag(fp.s, ns[Head(i_child)].opt)),
                           ele_curr, Tail(i_child))

RECURSIVE ExportLoop(_, _, _, _)
ExportLoop(sc, ns, d, pairs) ==
    IF pairs = <<>> THEN [raised |-> FALSE, doc |-> d]
    ELSE LET root_obj == Head(pairs)[1]
             fp       == FullPath(sc, ns, root_obj)
         IN IF fp = PyNone THEN [raised |-> TRUE, doc |-> d]
            ELSE LET f == FindNamedElement(d, 1, fp.s, ns[root_obj].opt)
                     c == ExportChilds(sc, ns, f.doc, f.ele, Head(pairs)[2])
                 IN IF c.raised THEN c
                    ELSE ExportLoop(sc, ns, c.doc, Tail(pairs))

\* the element tree export_xml hands to output_file
ExportDoc(sc, ns, r) == ExportLoop(sc, ns, <<RootElement>>, Traverse(ns, r, TRUE))

\* DAGstructure.export_xml: the file holds the element tree
ExportXml ==
    /\ root # 0
    /\ LET r == ExportDoc(scene, nodes, root) IN
       /\ doc' = IF r.raised THEN doc ELSE r.doc
       /\ last' = Call("export_xml", r.raised, <<>>, <<>>)
    /\ log' = <<>>
    /\ UNCHANGED <<nodes, root, scene, inodes, iroot>>

(***************************************************************************)
(* DAGstructure.import_xml.                                                *)
(***************************************************************************)
\* import_xml.__construct for the elements of a list, in document order
RECURSIVE ImportConstruct(_, _, _, _)
ImportConstruct(d, ns, elems, parent_node) ==
    IF elems = <<>> THEN [raised |-> FALSE, ns |-> ns]
    ELSE LET elem      == d[Head(elems)]
             node_name == elem.fullpath
             restore   == RestoreOption(elem.option)
         IN IF ~restore.ok THEN [raised |-> TRUE, ns |-> ns]
            ELSE LET a == NTreeFindAdd(ns, 1, parent_node, <<node_name>>, restore.opt) IN
                 IF a.raised THEN [raised |-> TRUE, ns |-> a.ns]
                 ELSE LET sub == ImportConstruct(d, a.ns, elem.node, node_name) IN
                      IF sub.raised THEN sub
                      ELSE ImportConstruct(d, sub.ns, Tail(elems), parent_node)

\* the tree import_xml builds from a document: the first node element under
\* the document root becomes the root, named by its name attribute; its
\* child elements are inserted with find_add under that name
ImportDoc(d) ==
    IF d = <<>> \/ d[1].node = <<>> THEN [raised |-> TRUE, ns |-> <<>>]
    ELSE LET node    == d[d[1].node[1]]
             name    == node.name
             restore == RestoreOption(node.option)
         IN IF ~restore.ok THEN [raised |-> TRUE, ns |-> <<>>]
            ELSE ImportConstruct(d, << NTreeInit(name, NoParent, restore.opt) >>,
                                 node.node, name)

\* DAGstructure.import_xml(xml_file): a new DAGstructure
ImportXml ==
    /\ doc # <<>>
    /\ LET r == ImportDoc(doc) IN
       /\ inodes' = IF r.raised THEN <<>> ELSE r.ns
       /\ iroot' = IF r.raised THEN 0 ELSE 1
       /\ last' = Call("import_xml", r.raised, <<>>, <<>>)
    /\ log' = <<>>
    /\ UNCHANGED <<nodes, root, scene, doc>>


(***************************************************************************)
(* Specification SpecXml: a tree over the objects of a scene is grown,     *)
(* exported and imported again.                                            *)
(***************************************************************************)
MaxXmlNodes == 3

\* |r, |r|a, |r|a|c
XmlScene ==
    << SceneObject(<<"|", "r">>, FALSE),
       SceneObject(<<"|", "r", "|", "a">>, FALSE),
       SceneObject(<<"|", "r", "|", "a", "|", "c">>, FALSE) >>

XmlNames == { <<"r">>, <<"a">>, <<"c">> }

\* no entries; boolean, string, integer and None entries; a numeric triple
XmlOpts ==
    { NoOpt,
      ("visibility" :> PyBool(TRUE)) @@ ("nodeType" :> PyStr(<<"t">>))
          @@ ("count" :> PyInt(12)) @@ ("pivot" :> PyNone),
      "translate" :> PyTuple(<<PyInt(0), PyInt(1), PyInt(2)>>) }

InitXml ==
    /\ nodes = <<>>
    /\ root = 0
    /\ last = NoCall
    /\ log = <<>>
    /\ scene = XmlScene
    /\ doc = <<>>
    /\ inodes = <<>>
    /\ iroot = 0

\* the snapshot is constructed once
XmlNewRoot == root = 0 /\ \E name \in XmlNames, opt \in XmlOpts : NewRoot(name, opt)

XmlFindAdd ==
    \E par \in XmlNames, name \in XmlNames, opt \in XmlOpts :
        FindAdd(par, name, opt, MaxXmlNodes)

NextXml == XmlNewRoot \/ XmlFindAdd \/ ExportXml \/ ImportXml

SpecXml == InitXml /\ [][NextXml]_vars

\* the last '|'-separated segment of a name
LastSegment(name) == Last(SplitBar(name))

\* sibling names are unique at every level
UniqueSiblings(ns) ==
    \A p \in 1..Len(ns) :
        LET cl == ChildIds(ns, p) IN
        \A a \in 1..Len(cl), b \in 1..Len(cl) : a # b => ns[cl[a]].name # ns[cl[b]].name

\* the host's full paths follow the tree: the root is a top-level object and
\* every other node lies directly below its Tree parent
PathsFollowTree(sc, ns, r) ==
    /\ FullPath(sc, ns, r) = PyStr(<<"|">> \o LastSegment(ns[r].name.s))
    /\ \A i \in 1..Len(ns) :
        i # r => FullPath(sc, ns, i)
                   = PyStr(FullPath(sc, ns, ns[i].parent.n).s \o <<"|">>
                           \o LastSegment(ns[i].name.s))

\* two trees of the same shape whose corresponding nodes have the same last
\* path segment and the same attribute bag, children in the same order
RECURSIVE SameTree(_, _, _, _)
SameTree(ns, i, ms, j) ==
    /\ LastSegment(ns[i].name.s) = LastSegment(ms[j].name.s)
    /\ DOMAIN ns[i].opt = DOMAIN ms[j].opt
    /\ \A k \in DOMAIN ns[i].opt : ns[i].opt[k] = ms[j].opt[k]
    /\ Len(ChildIds(ns, i)) = Len(ChildIds(ms, j))
    /\ \A k \in 1..Len(ChildIds(ns, i)) :
        SameTree(ns, ChildIds(ns, i)[k], ms, ChildIds(ms, j)[k])

(***************************************************************************)
(* C1.  Round trip: for every Tree with unique sibling names, import_xml   *)
(* of the document export_xml writes yields a Tree with the same topology  *)
(* (same child order) and, node for node, the same last path segment and   *)
(* the same attribute bag, for bags of booleans, integers, strings, None   *)
(* and numeric triples.  Stated for scenes whose full paths follow the     *)
(* Tree.                                                                   *)
(***************************************************************************)
C1_RoundTrip ==
    ( /\ last.op = "import_xml"
      /\ root # 0
      /\ UniqueSiblings(nodes)
      /\ PathsFollowTree(scene, nodes, root)
      /\ ~ExportDoc(scene, nodes, root).raised
      /\ doc = ExportDoc(scene, nodes, root).doc )
    => /\ ~last.raised
       /\ Len(inodes) = Len(nodes)
       /\ SameTree(nodes, root, inodes, iroot)

\* the number of node elements below (and including) element e
RECURSIVE CountElements(_, _)
CountElements(d, e) ==
    LET sub[k \in 0..Len(d[e].node)] ==
            IF k = 0 THEN 0 ELSE sub[k - 1] + CountElements(d, d[e].node[k])
    IN 1 + sub[Len(d[e].node)]

\* element e and its descendants are nested as node i and its descendants,
\* each element named by the last segment of its node's name
RECURSIVE ElementMirrorsNode(_, _, _, _)
ElementMirrorsNode(d, e, ns, i) ==
    /\ d[e].tag = "node"
    /\ d[e].name = LastSegment(ns[i].name.s)
    /\ Len(d[e].node) = Len(ChildIds(ns, i))
    /\ \A k \in 1..Len(d[e].node) :
        ElementMirrorsNode(d, d[e].node[k], ns, ChildIds(ns, i)[k])

(***************************************************************************)
(* C5.  Export mirrors the Tree: the document export_xml assembles has     *)
(* exactly one top-level node element under the dagStructure root, named   *)
(* by the root's short name, and one node element per Tree node, nested as *)
(* the Tree is nested, whatever full paths the host resolves.              *)
(***************************************************************************)
C5_ExportMirrorsTree ==
    (last.op = "export_xml" /\ ~last.raised) =>
        /\ doc[1].tag = "dagStructure"
        /\ Len(doc[1].node) = 1
        /\ CountElements(doc, 1) - 1 = Len(nodes)
        /\ ElementMirrorsNode(doc, doc[1].node[1], nodes, root)


(***************************************************************************)
(* Specification SpecDoc: a document is assembled element by element with  *)
(* create_new_nodeTag and find_named_element, and imported.                *)
(***************************************************************************)
MaxDocElements == 4

DocNames == { <<"|", "r">>, <<"|", "r", "|", "a">>, <<"r">> }

DocOpts == { NoOpt, "visibility" :> PyBool(TRUE) }

InitDoc ==
    /\ nodes = <<>>
    /\ root = 0
    /\ last = NoCall
    /\ log = <<>>
    /\ scene = <<>>
    /\ doc = <<RootElement>>
    /\ inodes = <<>>
    /\ iroot = 0

\* ele.append(cls.create_new_nodeTag(name, options))
DocAppend ==
    \E ele \in 1..Len(doc), name \in DocNames, options \in DocOpts :
        /\ Len(doc) < MaxDocElements
        /\ doc' = AppendElement(doc, ele, NewNodeTag(name, options))
        /\ last' = Call("append", FALSE, [ele |-> ele, name |-> name, options |-> options],
                        <<Len(doc) + 1>>)
        /\ log' = <<>>
        /\ UNCHANGED <<nodes, root, scene, inodes, iroot>>

\* cls.find_named_element(elem_root, fullpathName, options)
DocFindNamed ==
    \E fullpathName \in DocNames, options \in DocOpts :
        LET f == FindNamedElement(doc, 1, fullpathName, options) IN
        /\ Len(f.doc) <= MaxDocElements
        /\ doc' = f.doc
        /\ last' = Call("find_named_element", FALSE,
                        [fullpathName |-> fullpathName, options |-> options, before |-> Len(doc)],
                        <<f.ele>>)
        /\ log' = <<>>
        /\ UNCHANGED <<nodes, root, scene, inodes, iroot>>

NextDoc == DocAppend \/ DocFindNamed \/ ImportXml

SpecDoc == InitDoc /\ [][NextDoc]_vars

\* a document as the format describes it: one top-level node element, node
\* elements throughout
WellFormedDoc(d) ==
    /\ d # <<>>
    /\ d[1].tag = "dagStructure"
    /\ Len(d[1].node) = 1
    /\ \A e \in 2..Len(d) : d[e].tag = "node" /\ RestoreOption(d[e].option).ok

\* node i and its descendants correspond one to one, in order, to element e
\* and its descendants: the node is named by the element's fullpath (the
\* root by its name), carries its decoded options and has node p as parent
RECURSIVE NodeMirrorsElement(_, _, _, _, _)
NodeMirrorsElement(ns, i, p, d, e) ==
    /\ ns[i].name = PyStr(IF p = 0 THEN d[e].name ELSE d[e].fullpath)
    /\ ns[i].parent = (IF p = 0 THEN NoParent ELSE PyObj(p))
    /\ ns[i].opt = RestoreOption(d[e].option).opt
    /\ Len(ChildIds(ns, i)) = Len(d[e].node)
    /\ \A k \in 1..Len(d[e].node) :
        NodeMirrorsElement(ns, ChildIds(ns, i)[k], i, d, d[e].node[k])

(***************************************************************************)
(* C4.  Import mirrors the document: for every well-formed document,       *)
(* import_xml produces a Tree whose nodes correspond one to one to the     *)
(* document's node elements, each node's parent being the node of the      *)
(* enclosing element and each child list in document order; no element is  *)
(* dropped, attached elsewhere or inserted more than once, also when a     *)
(* fullpath value repeats or equals the root's short name.                 *)
(***************************************************************************)
C4_ImportMirrorsDocument ==
    (last.op = "import_xml" /\ WellFormedDoc(doc)) =>
        /\ ~last.raised
        /\ Len(inodes) = CountElements(doc, 1) - 1
        /\ NodeMirrorsElement(inodes, iroot, 0, doc, doc[1].node[1])

(***************************************************************************)
(* DAGstructure.construct: the snapshot of the host hierarchy.  The host   *)
(* scene is a sequence of objects (full path, shape flag); the hierarchy   *)
(* is the one the full paths spell.                                        *)
(***************************************************************************)
MaxSceneObjects == 4

\* full path of the parent object, <<>> for an object at the world level
ParentPath(path) == SubSeq(path, 1, Len(path) - Len(LastSegment(path)) - 1)

\* path lies strictly below top in the host hierarchy
IsBelow(path, top) ==
    /\ Len(path) > Len(top)
    /\ SubSeq(path, 1, Len(top)) = top
    /\ path[Len(top) + 1] = "|"

\* dagPath.childCount() / dagPath.child(i): the children, in scene order
ChildPaths(sc, path) ==
    LET ch == SelectSeq(sc, LAMBDA o : ParentPath(o.path) = path)
    IN [i \in 1..Len(ch) |-> ch[i].path]

\* the name cmds.listRelatives returns for an object: its short name when no
\* other object of the scene has it, otherwise a path holding a '|'
HostName(sc, path) ==
    IF Len(Ls(sc, LastSegment(path))) = 1 THEN LastSegment(path)
    ELSE IF ParentPath(path) = <<>> THEN path
    ELSE LastSegment(ParentPath(path)) \o <<"|">> \o LastSegment(path)

\* utils.get_all_childs(top): cmds.listRelatives(top, c=True, ad=True); None
\* (no descendants) is the empty list here, both are falsy
GetAllChilds(sc, top) ==
    LET d == SelectSeq(sc, LAMBDA o : IsBelow(o.path, top))
    IN [i \in 1..Len(d) |-> HostName(sc, d[i].path)]

\* utils.get_parentNode(fullpath) of an object that has a parent
GetParentNode(sc, path) == << HostName(sc, ParentPath(path)) >>

\* cmds.objectType(fullpath, isa='shape')
IsShape(sc, path) == \E i \in 1..Len(sc) : sc[i].path = path /\ sc[i].shape

\* _get_parent: the segments from the last to the first, skipping those
\* equal to the object's own short name; <<>> is None
RECURSIVE GetParentLoop(_, _, _, _)
GetParentLoop(parents, node, segs, i) ==
    IF i = 0 THEN <<>>
    ELSE IF segs[i] = node THEN GetParentLoop(parents, node, segs, i - 1)
    ELSE IF \E k \in 1..Len(parents) : parents[k] = segs[i] THEN << segs[i] >>
    ELSE GetParentLoop(parents, node, segs, i - 1)

GetParent(parents, segs) == GetParentLoop(parents, Last(segs), segs, Len(segs))

\* _set_option_attrib(name, self.attrib_opt), with the getter table reduced
\* to nodeType ('m' for a shape type, 't' for a transform)
Getters(sc, name) ==
    "nodeType" :> PyStr(IF IsShape(sc, GetNode(sc, name).s) THEN <<"m">> ELSE <<"t">>)

ConstructAddsShapes(sc, expandShape, child_list, short) ==
    /\ \E k \in 1..Len(child_list) : child_list[k] = short
    /\ ~expandShape

\* the conditions under which __construct adds the visited object, once a
\* parent name was found and child_list is not empty
ConstructAdds(sc, expandShape, child_list, short) ==
    /\ \E k \in 1..Len(child_list) : child_list[k] = short
    /\ ~expandShape
    /\ ~IsShape(sc, GetNode(sc, short).s)

\* __construct(dagPath, parent=fullpath of the visiting object) and its loop
\* over the children
RECURSIVE ConstructVisit(_, _, _, _, _)
RECURSIVE ConstructChilds(_, _, _, _, _)
ConstructVisit(sc, ns, child_list, expandShape, path) ==
    LET segs  == SplitBar(path)
        short == Last(segs)
        par   == GetParent(GetParentNode(sc, path), segs)
        r     == IF par # <<>> /\ child_list # <<>>
                    /\ ConstructAdds(sc, expandShape, child_list, short)
                 THEN NTreeFindAdd(ns, 1, par[1], <<short>>, Getters(sc, short))
                 ELSE [ns |-> ns, raised |-> FALSE]
    IN IF par # <<>> /\ child_list = <<>> THEN [ns |-> ns, raised |-> FALSE]
       ELSE IF r.raised THEN r
       ELSE ConstructChilds(sc, r.ns, child_list, expandShape, ChildPaths(sc, path))

ConstructChilds(sc, ns, child_list, expandShape, paths) ==
    IF paths = <<>> THEN [ns |-> ns, raised |-> FALSE]
    ELSE LET r == ConstructVisit(sc, ns, child_list, expandShape, Head(paths)) IN
         IF r.raised THEN r
         ELSE ConstructChilds(sc, r.ns, child_list, expandShape, Tail(paths))

\* DAGstructure(expandShape=...).construct(name): a name that denotes no
\* object or several makes the getters raise before self.root is assigned
Construct(name, expandShape) ==
    /\ LET hits == Ls(scene, name) IN
       IF Len(hits) # 1
       THEN /\ last' = Call("construct", TRUE,
                            [name |-> name, expandShape |-> expandShape], <<>>)
            /\ UNCHANGED <<nodes, root>>
       ELSE LET top == hits[1]
                r   == ConstructChilds(scene,
                                       << NTreeInit(name, NoParent, Getters(scene, name)) >>,
                                       GetAllChilds(scene, top), expandShape,
                                       ChildPaths(scene, top))
            IN /\ nodes' = r.ns
               /\ root' = 1
               /\ last' = Call("construct", r.raised,
                               [name |-> name, expandShape |-> expandShape], <<top>>)
    /\ log' = <<>>
    /\ UNCHANGED <<scene, doc, inodes, iroot>>

\* utils.create_node: a new object under parent (<<>> is the world); the host
\* keeps sibling names distinct and gives a shape no children
CreateObject(parent, name, isShape) ==
    /\ Len(scene) < MaxSceneObjects
    /\ \/ parent = <<>>
       \/ \E i \in 1..Len(scene) : scene[i].path = parent /\ ~scene[i].shape
    /\ \A i \in 1..Len(scene) : scene[i].path # parent \o <<"|">> \o name
    /\ scene' = Append(scene, SceneObject(parent \o <<"|">> \o name, isShape))
    /\ last' = Call("create_node", FALSE, [name |-> name, parent |-> parent], <<>>)
    /\ log' = <<>>
    /\ UNCHANGED <<nodes, root, doc, inodes, iroot>>

(***************************************************************************)
(* Specification SpecConstruct: scenes built object by object, snapshots   *)
(* taken at any time.                                                      *)
(***************************************************************************)
SceneNames == { <<"r">>, <<"a">>, <<"s">> }

ConstructNames == SceneNames \cup { <<"|", "r">> }

HostCreate ==
    \E parent \in {<<>>} \cup { scene[i].path : i \in 1..Len(scene) },
       name \in SceneNames, isShape \in BOOLEAN :
        /\ parent = <<>> => name = <<"r">> /\ ~isShape
        /\ CreateObject(parent, name, isShape)

DoConstruct ==
    \E name \in ConstructNames, expandShape \in BOOLEAN : Construct(name, expandShape)

NextConstruct == HostCreate \/ DoConstruct

SpecConstruct == InitEmpty /\ [][NextConstruct]_vars

\* a snapshot was taken with the default options, of the object top
DefaultSnapshot ==
    /\ last.op = "construct"
    /\ ~last.raised
    /\ ~last.args.expandShape

\* node j of the Tree is named like the object at path and hangs under the
\* node of that object's parent (the Tree root when the parent is top)
StandsFor(j, path, top) ==
    /\ nodes[j].name = PyStr(LastSegment(path))
    /\ nodes[j].parent.typ = "DAGtree"
    /\ IF ParentPath(path) = top THEN nodes[j].parent.n = root
       ELSE nodes[nodes[j].parent.n].name = PyStr(LastSegment(ParentPath(path)))

\* C10 (as stated): with the default options every shape-type leaf below the
\* constructed root has a node in the Tree after construct, attached under
\* the node of its external parent.
C10_ShapeLeavesCaptured ==
    DefaultSnapshot =>
        \A i \in 1..Len(scene) :
            (scene[i].shape /\ IsBelow(scene[i].path, last.out[1])) =>
                \E j \in 2..Len(nodes) : StandsFor(j, scene[i].path, last.out[1])

\* C10 (amended): with the default options construct filters every shape: no
\* shape-type object below the constructed root has a node in the Tree after
\* construct, and every node below the Tree root stands for a non-shape object
\* below the constructed root and hangs under the node of its external parent.
C10_ShapesFiltered ==
    DefaultSnapshot =>
        /\ \A i \in 1..Len(scene) :
               (scene[i].shape /\ IsBelow(scene[i].path, last.out[1])) =>
                   \A j \in 2..Len(nodes) : nodes[j].name # PyStr(LastSegment(scene[i].path))
        /\ \A j \in 2..Len(nodes) :
               \E i \in 1..Len(scene) :
                   /\ ~scene[i].shape
                   /\ IsBelow(scene[i].path, last.out[1])
                   /\ StandsFor(j, scene[i].path, last.out[1])

\* a default snapshot of a hierarchy with a shape leaf whose name is unique in
\* the scene and whose parent has a node other than the root
C10_Witness ==
    /\ DefaultSnapshot
    /\ \E i \in 1..Len(scene), k \in 2..Len(nodes) :
           /\ scene[i].shape
           /\ IsBelow(scene[i].path, last.out[1])
           /\ Len(Ls(scene, LastSegment(scene[i].path))) = 1
           /\ nodes[k].name = PyStr(LastSegment(ParentPath(scene[i].path)))

(***************************************************************************)
(* NTree.find_add when no node is named par.                               *)
(***************************************************************************)
\* no node of the arena ns is named par
NoNodeNamed(ns, par) == \A i \in 1..Len(ns) : ns[i].name # PyStr(par)

\* C11: find_add(par, name, opt) on a tree with no node named par still leaves
\* a node named name in the tree, attached under a node created for par; the
\* tree gains at least one node on every such call.
C11_FindAddMaterialises ==
    [][ (last'.op = "find_add" /\ NoNodeNamed(nodes, last'.args.par)) =>
            /\ Len(nodes') > Len(nodes)
            /\ \E j \in 1..Len(nodes'), k \in 1..Len(nodes') :
                   /\ nodes'[j].name = PyStr(last'.args.names[1])
                   /\ nodes'[j].parent = PyObj(k)
                   /\ nodes'[k].name = PyStr(last'.args.par) ]_vars

(***************************************************************************)
(* Specification SpecPath: find_named_element on documents grown by        *)
(* appends and by earlier lookups.  Full path names start with '|'.        *)
(***************************************************************************)
MaxPathElements == 4

PathNames == { <<"|", "r">>, <<"|", "r", "|", "a">>, <<"|", "r", "|", "a", "|", "c">> }

\* ele.append(cls.create_new_nodeTag(name, options))
PathAppend ==
    \E ele \in 1..Len(doc), name \in PathNames, options \in DocOpts :
        /\ Len(doc) < MaxPathElements
        /\ doc' = AppendElement(doc, ele, NewNodeTag(name, options))
        /\ last' = Call("append", FALSE, [ele |-> ele, name |-> name, options |-> options],
                        <<Len(doc) + 1>>)
        /\ log' = <<>>
        /\ UNCHANGED <<nodes, root, scene, inodes, iroot>>

\* cls.find_named_element(elem_root, fullpathName, options); the call record
\* keeps the document the call started from
PathFindNamed ==
    \E fullpathName \in PathNames, options \in DocOpts :
        LET f == FindNamedElement(doc, 1, fullpathName, options) IN
        /\ Len(f.doc) <= MaxPathElements
        /\ doc' = f.doc
        /\ last' = Call("find_named_element", FALSE,
                        [fullpathName |-> fullpathName, options |-> options, doc |-> doc],
                        <<f.ele>>)
        /\ log' = <<>>
        /\ UNCHANGED <<nodes, root, scene, inodes, iroot>>

NextPath == PathAppend \/ PathFindNamed

SpecPath == InitDoc /\ [][NextPath]_vars

\* the path of the first i segments
RECURSIVE PathPrefix(_, _)
PathPrefix(segs, i) ==
    IF i = 0 THEN <<>> ELSE PathPrefix(segs, i - 1) \o <<"|">> \o segs[i]

\* the element that holds e among its children
ParentOf(d, e) ==
    CHOOSE p \in 1..Len(d) : \E k \in 1..Len(d[p].node) : d[p].node[k] = e

\* the elements from e up to the element of the first segment, e first
RECURSIVE ChainOf(_, _, _)
ChainOf(d, e, i) ==
    IF i = 0 \/ e = 1 THEN <<>> ELSE <<e>> \o ChainOf(d, ParentOf(d, e), i - 1)

\* C12: find_named_element(ele, path) returns the element whose fullpath is
\* path, at the end of a chain of elements nested one in the other from ele,
\* one per path prefix; an element of the chain is new exactly when the
\* element of the previous prefix had no child with that prefix as fullpath,
\* every new element belongs to the chain and carries the options given, and
\* the elements that existed are kept as they were; on an empty document a
\* 3-segment path gives three elements, each the sole child of the previous,
\* without option children when no options are given; a second call with the
\* same path creates nothing and returns the same element.
C12_LazyPathLookup ==
    last.op = "find_named_element" =>
        LET pre   == last.args.doc
            e     == last.out[1]
            path  == last.args.fullpathName
            segs  == Tail(SplitBar(path))
            k     == Len(segs)
            chain == ChainOf(doc, e, k)
            el(i) == IF i = 0 THEN 1 ELSE chain[k - i + 1]
            old(x) == x <= Len(pre)
        IN /\ doc[e].fullpath = path
           /\ Len(chain) = k
           /\ k > 0 => ParentOf(doc, chain[k]) = 1
           /\ \A i \in 1..k :
                  /\ doc[el(i)].tag = "node"
                  /\ doc[el(i)].fullpath = PathPrefix(segs, i)
                  /\ old(el(i)) <=>
                         /\ old(el(i - 1))
                         /\ \E g \in 1..Len(pre[el(i - 1)].node) :
                                pre[pre[el(i - 1)].node[g]].fullpath = PathPrefix(segs, i)
           /\ \A x \in (Len(pre) + 1)..Len(doc) :
                  /\ \E i \in 1..k : el(i) = x
                  /\ doc[x].option = OptionElements(last.args.options)
                  /\ Len(doc[x].node) <= 1
           /\ Len(doc) >= Len(pre)
           /\ \A x \in 1..Len(pre) :
                  /\ [doc[x] EXCEPT !.node = pre[x].node] = pre[x]
                  /\ SubSeq(doc[x].node, 1, Len(pre[x].node)) = pre[x].node
           /\ (Len(pre) = 1 /\ k = 3) =>
                  /\ Len(doc) = 4
                  /\ \A x \in 1..3 : Len(doc[x].node) = 1 /\ ParentOf(doc, x + 1) = x
                  /\ doc[4].node = <<>>
                  /\ last.args.options = NoOpt =>
                         \A x \in 2..4 : doc[x].option = <<>>
           /\ \A o \in DocOpts :
                  FindNamedElement(doc, 1, path, o) = [doc |-> doc, ele |-> e]

\* a 3-segment path was looked up on the empty document without options
C12_Witness ==
    /\ last.op = "find_named_element"
    /\ last.args.doc = <<RootElement>>
    /\ Len(Tail(SplitBar(last.args.fullpathName))) = 3
    /\ last.args.options = NoOpt
    /\ Len(doc) = 4

=============================================================================
